---- MODULE Spec2Model ----
(***************************************************************************)
(* The consumer-side fetch engine of aiokafka (aiokafka/fetcher.py):       *)
(* FetchResult (the per-partition buffer), the background fetch loop       *)
(* Fetcher._fetch_requests_routine, its child tasks _proc_fetch_request,   *)
(* the consumer API next_record / fetched_records and close().            *)
(*                                                                         *)
(* The model follows asyncio's cooperative scheduling: one action is the   *)
(* code a task runs between two suspension points (yield from).            *)
(* SubscriptionState, the cluster metadata and the brokers are the         *)
(* environment; their moves are actions of their own.                      *)
(***************************************************************************)
EXTENDS Integers, Sequences, FiniteSets, TLC

\* The topic partitions and broker nodes of the modelled cluster.
TPs == {"t0", "t1"}
Nodes == {1, 2}

\* Offsets of the modelled logs are 0 .. MaxOffset - 1; a position is at most MaxOffset.
MaxOffset == 2
\* Task objects alive at once (slots for child fetch tasks).
MaxTasks == 3
TaskIds == 1 .. MaxTasks

\* Python's None where the code holds an int (position, highwater, a request's
\* missing partition, "no record").
NoPos == 0 - 1
\* cluster.leader_for_partition(tp) is None or -1: no usable leader.
NoLeader == 0 - 1

VARIABLES
    needs_partition_assignment, \* SubscriptionState.needs_partition_assignment
    assignment,      \* SubscriptionState.assignment: tp -> partition state
    default_reset,   \* SubscriptionState.has_default_offset_reset_policy()
    leader,          \* cluster.leader_for_partition: tp -> node or NoLeader
    records,         \* Fetcher._records, an OrderedDict, as a sequence of entries
    in_flight,       \* Fetcher._in_flight
    tasks,           \* the child task objects (asyncio.Task of _proc_fetch_request)
    fetch_waiters,   \* Fetcher._fetch_waiters: ids of tasks
    wait_full,       \* Fetcher._wait_full_future: "none" | "pending" | "done"
    wait_empty,      \* Fetcher._wait_empty_future: "none" | "pending" | "done"
    loop,            \* Fetcher._fetch_task: its suspension point and locals
    consumer,        \* the application task calling next_record / fetched_records
    closer,          \* the task running close(), with the observation of the
                     \* child tasks awaiting an answer when close() was called
    updater,         \* the task running update_fetch_positions and the
                     \* _reset_offset tasks it waits for, per partition
    out,             \* observation: what the step just taken returned or raised to the consumer
    last             \* observation: tp -> last offset delivered since the last seek

vars == <<needs_partition_assignment, assignment, default_reset, leader, records,
          in_flight, tasks, fetch_waiters, wait_full, wait_empty, loop, consumer,
          closer, updater, out, last>>

subsVars == <<needs_partition_assignment, assignment, default_reset>>
engineVars == <<in_flight, tasks, fetch_waiters, loop, closer>>
apiVars == <<consumer, last>>

\* The observation when the step taken is no return or raise of the consumer API.
NoGot == [tp \in TPs |-> <<>>]
NoOut ==
    [n |-> 0, op |-> "none", kind |-> "none", keys |-> {}, got |-> NoGot,
     err |-> "", errtp |-> "", off |-> NoPos]
\* a step of neither the consumer API nor update_fetch_positions
Silent == out' = NoOut /\ UNCHANGED updater

-----------------------------------------------------------------------------
(* SubscriptionState as the fetcher uses it *)

\* OffsetResetStrategy, and None for TopicPartitionState.reset_strategy
Strategies == {"EARLIEST", "LATEST", "NONE"}
NoStrategy == "unset"

FreshState ==
    [assigned |-> FALSE, paused |-> FALSE, position |-> NoPos,
     highwater |-> NoPos, awaiting_reset |-> FALSE,
     reset_strategy |-> NoStrategy, committed |-> NoPos]

\* SubscriptionState.has_default_offset_reset_policy()
has_default_offset_reset_policy(strategy) == strategy # "NONE"

\* SubscriptionState.is_assigned(tp)
is_assigned(asg, tp) == asg[tp].assigned

\* SubscriptionState.is_fetchable(tp): assigned, not paused, with a valid position
is_fetchable(asg, tp) ==
    asg[tp].assigned /\ ~asg[tp].paused /\ asg[tp].position # NoPos

\* SubscriptionState.fetchable_partitions()
fetchable_partitions(asg) == {tp \in TPs : is_fetchable(asg, tp)}

need_offset_resetForgets(asg, tp, strategy) == asg
\* SubscriptionState.need_offset_reset(tp), with the default strategy: the
\* position becomes invalid
need_offset_reset(asg, tp, strategy) ==
    [asg EXCEPT ![tp].awaiting_reset = TRUE, ![tp].reset_strategy = strategy,
                ![tp].position = NoPos]

\* SubscriptionState.is_offset_reset_needed(tp)
is_offset_reset_needed(asg, tp) == asg[tp].awaiting_reset

\* SubscriptionState.seek(tp, offset)
seek(asg, tp, offset) ==
    [asg EXCEPT ![tp].position = offset, ![tp].awaiting_reset = FALSE,
                ![tp].reset_strategy = NoStrategy]

\* a _reset_offset task that does not exist, and update_fetch_positions not
\* called
NoReset == [pc |-> "none", strategy |-> NoStrategy, request |-> <<>>, err |-> ""]
NoUpdate == [pc |-> "idle", err |-> "", resets |-> [tp \in TPs |-> NoReset]]

-----------------------------------------------------------------------------
(* Fetcher._records: an insertion-ordered dict tp -> FetchResult | error *)

BufEntry(tp, msgs) ==
    [tp |-> tp, kind |-> "buf", msgs |-> msgs, err |-> "", off |-> NoPos]
ErrEntry(tp, err, off) ==
    [tp |-> tp, kind |-> "err", msgs |-> <<>>, err |-> err, off |-> off]

RecTPs(recs) == {recs[i].tp : i \in DOMAIN recs}
Keys(recs) == [i \in DOMAIN recs |-> recs[i].tp]
IndexOf(recs, tp) == CHOOSE i \in DOMAIN recs : recs[i].tp = tp
Entry(recs, tp) == recs[IndexOf(recs, tp)]

\* self._records[tp] = e : a present key keeps its place, a new one goes last
SetRecord(recs, e) ==
    IF e.tp \in RecTPs(recs)
    THEN [recs EXCEPT ![IndexOf(recs, e.tp)] = e]
    ELSE Append(recs, e)

DelRecordKeeps(recs, tp) == recs
\* del self._records[tp]
DelRecord(recs, tp) == SelectSeq(recs, LAMBDA e : e.tp # tp)

\* Fetcher._notify(future)
notify(future) == IF future = "pending" THEN "done" ELSE future

-----------------------------------------------------------------------------
(* FetchResult *)

\* FetchResult._check_assignment; FALSE also clears the buffer (see getone, getall)
check_assignment(npa, asg, tp) == ~(npa \/ ~is_fetchable(asg, tp))

getone_scanKeepsGreater(msgs, pos) ==
    LET k == CHOOSE k \in 0 .. Len(msgs) :
                 /\ \A i \in 1 .. k : msgs[i] < pos
                 /\ k < Len(msgs) => msgs[k + 1] >= pos
        rest == SubSeq(msgs, k + 1, Len(msgs))
    IN IF rest # <<>> /\ Head(rest) = pos
       THEN [msg |-> pos, rest |-> Tail(rest), pos |-> pos + 1]
       ELSE [msg |-> NoPos, rest |-> rest, pos |-> pos]
RECURSIVE getone_scan(_, _)
\* the while loop of getone: popleft until a record at the position shows up
getone_scan(msgs, pos) ==
    IF msgs = <<>> THEN [msg |-> NoPos, rest |-> <<>>, pos |-> pos]
    ELSE IF Head(msgs) = pos
         THEN [msg |-> Head(msgs), rest |-> Tail(msgs), pos |-> pos + 1]
         ELSE getone_scan(Tail(msgs), pos)

getoneAnyOffset(npa, asg, tp, msgs) ==
    IF ~check_assignment(npa, asg, tp) \/ msgs = <<>>
    THEN [msg |-> NoPos, rest |-> <<>>, pos |-> asg[tp].position]
    ELSE [msg |-> Head(msgs), rest |-> Tail(msgs), pos |-> asg[tp].position + 1]
\* FetchResult.getone(): the record returned (NoPos: None), what stays buffered,
\* and the partition's position afterwards
getone(npa, asg, tp, msgs) ==
    IF ~check_assignment(npa, asg, tp)
    THEN [msg |-> NoPos, rest |-> <<>>, pos |-> asg[tp].position]
    ELSE getone_scan(msgs, asg[tp].position)

RECURSIVE getall_scan(_, _, _)
\* the while loop of getall
getall_scan(msgs, pos, ret) ==
    IF msgs = <<>> THEN [ret |-> ret, pos |-> pos]
    ELSE IF Head(msgs) = pos
         THEN getall_scan(Tail(msgs), pos + 1, Append(ret, Head(msgs)))
         ELSE getall_scan(Tail(msgs), pos, ret)

getallOneStep(npa, asg, tp, msgs) ==
    IF ~check_assignment(npa, asg, tp)
    THEN [ret |-> <<>>, pos |-> asg[tp].position]
    ELSE LET r == getall_scan(msgs, asg[tp].position, <<>>)
         IN [ret |-> r.ret,
             pos |-> IF r.ret = <<>> THEN asg[tp].position ELSE asg[tp].position + 1]
\* FetchResult.getall(): the list returned and the position afterwards
getall(npa, asg, tp, msgs) ==
    IF ~check_assignment(npa, asg, tp)
    THEN [ret |-> <<>>, pos |-> asg[tp].position]
    ELSE getall_scan(msgs, asg[tp].position, <<>>)

-----------------------------------------------------------------------------
(* The consumer API *)

RECURSIVE next_record_scan(_, _, _, _)
\* the for loop of next_record over list(self._records.keys()); st carries
\* _records, the assignment and _wait_full_future
next_record_scan(keys, partitions, npa, st) ==
    IF keys = <<>> THEN [st EXCEPT !.kind = "wait"]
    ELSE LET tp == Head(keys) IN
         IF partitions # {} /\ tp \notin partitions
         THEN next_record_scan(Tail(keys), partitions, npa, st)
         ELSE LET e == Entry(st.recs, tp) IN
              IF e.kind = "buf"
              THEN LET g == getone(npa, st.asg, tp, e.msgs) IN
                   IF g.msg = NoPos
                   THEN next_record_scan(Tail(keys), partitions, npa,
                            [st EXCEPT !.recs = DelRecord(st.recs, tp),
                                       !.wf = notify(st.wf)])
                   ELSE [st EXCEPT !.kind = "return", !.tp = tp, !.msg = g.msg,
                                   !.recs = SetRecord(st.recs, BufEntry(tp, g.rest)),
                                   !.asg = [st.asg EXCEPT ![tp].position = g.pos]]
              ELSE [st EXCEPT !.kind = "raise", !.tp = tp, !.err = e.err,
                              !.off = e.off,
                              !.recs = DelRecord(st.recs, tp),
                              !.wf = notify(st.wf)]

next_record(partitions, npa, asg, recs, wf) ==
    next_record_scan(Keys(recs), partitions, npa,
        [kind |-> "scan", tp |-> "", msg |-> NoPos, err |-> "", off |-> NoPos,
         recs |-> recs, asg |-> asg, wf |-> wf])

hold_errorNever(drained) == FALSE
\* line 540, "if drained": some partition was drained before the error is met
hold_error(drained) == drained # {}

RECURSIVE fetched_records_scan(_, _, _, _)
\* the for loop of fetched_records; st.keys and st.got are the dict drained
fetched_records_scan(keys, partitions, npa, st) ==
    IF keys = <<>> THEN [st EXCEPT !.kind = "end"]
    ELSE LET tp == Head(keys) IN
         IF partitions # {} /\ tp \notin partitions
         THEN fetched_records_scan(Tail(keys), partitions, npa, st)
         ELSE LET e == Entry(st.recs, tp) IN
              IF e.kind = "buf"
              THEN LET g == getall(npa, st.asg, tp, e.msgs) IN
                   fetched_records_scan(Tail(keys), partitions, npa,
                       [st EXCEPT !.keys = st.keys \cup {tp},
                                  !.got = [st.got EXCEPT ![tp] = g.ret],
                                  !.asg = [st.asg EXCEPT ![tp].position = g.pos],
                                  !.recs = DelRecord(st.recs, tp),
                                  !.wf = notify(st.wf)])
              ELSE IF hold_error(st.keys)
                   THEN [st EXCEPT !.kind = "return"]
                   ELSE [st EXCEPT !.kind = "raise", !.tp = tp, !.err = e.err,
                                   !.off = e.off,
                                   !.recs = DelRecord(st.recs, tp),
                                   !.wf = notify(st.wf)]

\* fetched_records up to its return, raise or wait: "if drained or not timeout"
fetched_records(partitions, timeout, npa, asg, recs, wf) ==
    LET r == fetched_records_scan(Keys(recs), partitions, npa,
                 [kind |-> "scan", tp |-> "", keys |-> {}, got |-> NoGot,
                  err |-> "", off |-> NoPos,
                  recs |-> recs, asg |-> asg, wf |-> wf])
    IN IF r.kind # "end" THEN r
       ELSE IF r.keys # {} \/ timeout = 0
            THEN [r EXCEPT !.kind = "return"]
            ELSE [r EXCEPT !.kind = "wait"]

RECURSIVE drain_next(_, _, _, _, _)
\* next_record(partitions) called again and again until it would wait (or
\* raises): the records returned, per partition, and the state left
drain_next(partitions, npa, asg, recs, got) ==
    LET r == next_record(partitions, npa, asg, recs, "none")
    IN IF r.kind = "return"
       THEN drain_next(partitions, npa, r.asg, r.recs,
                       [got EXCEPT ![r.tp] = Append(@, r.msg)])
       ELSE [got |-> got, asg |-> r.asg, recs |-> r.recs]

RECURSIVE drain_fetched(_, _, _, _, _)
\* fetched_records(partitions, timeout=0) called again and again until it
\* returns an empty dict (or raises)
drain_fetched(partitions, npa, asg, recs, got) ==
    LET r == fetched_records(partitions, 0, npa, asg, recs, "none")
    IN IF r.kind = "return" /\ r.keys # {}
       THEN drain_fetched(partitions, npa, r.asg, r.recs,
                          [tp \in TPs |-> got[tp] \o r.got[tp]])
       ELSE [got |-> got, asg |-> r.asg, recs |-> r.recs]

-----------------------------------------------------------------------------
(* A FetchResponse, partition by partition *)

\* The broker's high-watermark in a NoError answer.
LogEnd == MaxOffset

\* What unpacking can give for a fetch at offset o: the record at o, a run from
\* o, a compressed set that starts before o, a set that starts after o.
Messages(o) ==
    {s \in {<<o>>, <<o, o + 1>>, <<o - 1, o>>, <<o + 1>>} :
        \A i \in DOMAIN s : s[i] \in 0 .. MaxOffset - 1}

NoResult == [kind |-> "absent", msgs |-> <<>>, hw |-> NoPos]

\* The answers of a broker for one partition fetched at offset o:
\*   msgs      NoError, records that unpack
\*   invalid   NoError, a record whose CRC check fails while unpacking
\*   crash     NoError, a record whose deserializer raises
\*   partial   NoError, nothing but a PartialMessage
\*   empty     NoError, no message
\*   not_leader    NotLeaderForPartition / UnknownTopicOrPartition
\*   out_of_range  OffsetOutOfRange
\*   auth_failed   TopicAuthorizationFailed
\*   other         any other error code
PartitionResults(o) ==
    {[kind |-> "msgs", msgs |-> s, hw |-> LogEnd] : s \in Messages(o)}
    \cup {[kind |-> k, msgs |-> <<>>, hw |-> LogEnd] :
            k \in {"invalid", "crash", "partial", "empty"}}
    \cup {[kind |-> k, msgs |-> <<>>, hw |-> NoPos] :
            k \in {"not_leader", "out_of_range", "auth_failed", "other"}}

\* The engine's specifications read logs that end one record earlier, at
\* EngineLogEnd, and draw from these answers: the record at the offset asked,
\* no message, a fatal error and a record whose deserializer raises.
EngineLogEnd == MaxOffset - 1
EngineResults ==
    [o \in 0 .. MaxOffset |->
        {r \in PartitionResults(o) :
            \/ r.kind \in {"empty", "auth_failed", "crash"}
            \/ r.kind = "msgs" /\ r.msgs = <<o>> /\ o < EngineLogEnd}]

\* The answers of a broker whose log holds a record that fails its CRC check:
\* as above, with "invalid" for the deserializer's exception.
LiveResults ==
    [o \in 0 .. MaxOffset |->
        {r \in PartitionResults(o) :
            \/ r.kind \in {"empty", "auth_failed", "invalid"}
            \/ r.kind = "msgs" /\ r.msgs = <<o>>}]

NoReq == [tp \in TPs |-> NoPos]
ReqTPs(req) == {tp \in TPs : req[tp] # NoPos}
Orders(S) ==
    {ord \in [1 .. Cardinality(S) -> S] :
        \A i, j \in DOMAIN ord : i # j => ord[i] # ord[j]}

RECURSIVE Fill(_, _, _)
Fill(S, req, Results) ==
    IF S = {} THEN {[tp \in TPs |-> NoResult]}
    ELSE LET tp == CHOOSE x \in S : TRUE
         IN {[f EXCEPT ![tp] = r] :
                f \in Fill(S \ {tp}, req, Results), r \in Results[req[tp]]}

\* The answers to request req: one result, among Results[offset asked], per
\* requested partition.
Responses(req, Results) == Fill(ReqTPs(req), req, Results)

AnyResults == [o \in 0 .. MaxOffset |-> PartitionResults(o)]

\* the check of line 275, self._subscriptions.is_fetchable(tp)
response_is_fetchable(asg, tp) == is_fetchable(asg, tp)

skip_too_largeStays(position) == position
\* line 320, self._subscriptions.assignment[tp].position += 1
skip_too_large(position) == position + 1

\* The body of the loop over response.topics for one partition; st carries the
\* assignment, _records, needs_wakeup and whether an exception left the loop.
force_metadata_updateSkipped(st) == st
\* line 324, self._client.force_metadata_update(): the client is asked for
\* new metadata, nothing of the fetcher changes
force_metadata_update(st) == [st EXCEPT !.refresh = TRUE]

proc_partition(tp, p, fetch_offset, policy, st) ==
    IF ~response_is_fetchable(st.asg, tp) THEN st
    ELSE CASE p.kind = "msgs" ->
                [st EXCEPT !.asg[tp].highwater = p.hw,
                           !.recs = SetRecord(st.recs, BufEntry(tp, p.msgs)),
                           !.wakeup = TRUE]
           [] p.kind = "invalid" ->
                [st EXCEPT !.asg[tp].highwater = p.hw,
                           !.recs = SetRecord(st.recs,
                                        ErrEntry(tp, "InvalidMessage", NoPos))]
           [] p.kind = "crash" ->
                [st EXCEPT !.asg[tp].highwater = p.hw, !.crashed = TRUE]
           [] p.kind = "partial" ->
                [st EXCEPT !.asg[tp].highwater = p.hw,
                           !.asg[tp].position = skip_too_large(st.asg[tp].position),
                           !.recs = SetRecord(st.recs,
                                        ErrEntry(tp, "RecordTooLarge", NoPos)),
                           !.wakeup = TRUE]
           [] p.kind = "empty" ->
                [st EXCEPT !.asg[tp].highwater = p.hw]
           [] p.kind = "not_leader" ->
                force_metadata_update(st)
           [] p.kind = "out_of_range" ->
                IF has_default_offset_reset_policy(policy)
                THEN [st EXCEPT !.asg = need_offset_reset(st.asg, tp, policy)]
                ELSE [st EXCEPT !.recs = SetRecord(st.recs,
                                    ErrEntry(tp, "OffsetOutOfRange", fetch_offset)),
                                !.wakeup = TRUE]
           [] p.kind = "auth_failed" ->
                [st EXCEPT !.recs = SetRecord(st.recs,
                                ErrEntry(tp, "TopicAuthorizationFailed", NoPos)),
                           !.wakeup = TRUE]
           [] OTHER -> st

RECURSIVE proc_response(_, _, _, _, _)
\* lines 266-344 of _proc_fetch_request: the partitions of the response in the
\* order ord; an exception ends the loop where it is raised
proc_response(ord, resp, req, policy, st) ==
    IF ord = <<>> \/ st.crashed THEN st
    ELSE proc_response(Tail(ord), resp, req, policy,
             proc_partition(Head(ord), resp[Head(ord)], req[Head(ord)], policy, st))

-----------------------------------------------------------------------------
(* The fetch request planner *)

in_flight_checkNever(node, inflight) == FALSE
\* "if node_id in self._in_flight" of _create_fetch_requests
in_flight_check(node, inflight) == node \in inflight

\* Fetcher._create_fetch_requests: the set of (node_id, request); a request maps
\* each partition it asks for to the offset asked (NoPos: not asked)
create_fetch_requests(npa, asg, recs, inflight, ldr) ==
    IF npa THEN {}
    ELSE LET planned == {tp \in fetchable_partitions(asg) :
                            /\ tp \notin RecTPs(recs)
                            /\ ~in_flight_check(ldr[tp], inflight)
                            /\ ldr[tp] # NoLeader}
         IN {[node |-> n,
              req |-> [tp \in TPs |->
                          IF tp \in planned /\ ldr[tp] = n
                          THEN asg[tp].position ELSE NoPos]] :
                n \in {ldr[tp] : tp \in planned}}

-----------------------------------------------------------------------------
(* Tasks *)

FreeTask ==
    [state |-> "free", node |-> 0, req |-> NoReq, result |-> FALSE, cancel |-> FALSE,
     refresh |-> FALSE]
Finished == {"done", "failed", "cancelled"}
FreeSlots == {t \in TaskIds : tasks[t].state = "free"}
FirstFree == CHOOSE t \in FreeSlots : \A u \in FreeSlots : t <= u

\* The event loop runs callbacks in the order they were scheduled: the first
\* step of a task, scheduled by ensure_future (line 167), runs before any
\* wake-up scheduled after it (the end of asyncio.wait, a cancellation).
Started == \A t \in TaskIds : tasks[t].state # "created"

\* lines 173-195: what the loop does once the for loop over the requests is
\* over, up to its next suspension
after_for(waiters, recs, wf) ==
    IF waiters # {} THEN [pc |-> "wait", wf |-> wf]
    ELSE [pc |-> IF recs # <<>> THEN "wait_full" ELSE "sleep", wf |-> "pending"]

\* line 160 on: a new round of the while loop, up to its next suspension
next_round(waiters, wf) ==
    LET reqs == create_fetch_requests(needs_partition_assignment, assignment,
                                      records, in_flight, leader)
        a == after_for(waiters, records, wf)
    IN IF reqs = {} THEN [pc |-> a.pc, requests |-> {}, wf |-> a.wf]
       ELSE [pc |-> "ready", requests |-> reqs, wf |-> wf]

-----------------------------------------------------------------------------
(* The initial state: a Fetcher just constructed, nothing assigned yet *)

\* The fetcher after __init__, the consumer's default reset strategy being
\* one of defaults.
InitWith(defaults) ==
    /\ needs_partition_assignment = FALSE
    /\ assignment = [tp \in TPs |-> FreshState]
    /\ default_reset \in defaults
    /\ leader = [tp \in TPs |-> NoLeader]
    /\ records = <<>>
    /\ in_flight = {}
    /\ tasks = [t \in TaskIds |-> FreeTask]
    /\ fetch_waiters = {}
    /\ wait_full = "none"
    /\ wait_empty = "none"
    /\ loop = [pc |-> "start", requests |-> {}, cancel |-> FALSE]
    /\ consumer = [pc |-> "idle", partitions |-> {}]
    /\ closer = [pc |-> "none", cur |-> 0, visited |-> {}, outstanding |-> {}]
    /\ updater = NoUpdate
    /\ out = NoOut
    /\ last = [tp \in TPs |-> NoPos]

\* EARLIEST differs from LATEST in the timestamp of the OffsetRequest only,
\* which SpecUpdate covers.
Init == InitWith({"LATEST", "NONE"})

-----------------------------------------------------------------------------
(* The environment: the group coordinator and the application acting on     *)
(* SubscriptionState, and the cluster metadata                              *)

\* a rebalance starts (subscribe, mark_for_reassignment)
Rebalance ==
    /\ ~needs_partition_assignment
    /\ needs_partition_assignment' = TRUE
    /\ Silent
    /\ UNCHANGED <<assignment, default_reset, leader, records, wait_full,
                   wait_empty, engineVars, apiVars>>

\* assign_from_subscribed / assign_from_user: the partitions S, each with a
\* new state that has no position yet
Assign(S) ==
    /\ needs_partition_assignment' = FALSE
    /\ assignment' = [tp \in TPs |-> [FreshState EXCEPT !.assigned = tp \in S]]
    /\ last' = [tp \in TPs |-> NoPos]
    /\ Silent
    /\ UNCHANGED <<default_reset, leader, records, wait_full, wait_empty,
                   engineVars, consumer>>

\* the application (or the coordinator, from a committed offset) seeks
Seek(tp, offset) ==
    /\ is_assigned(assignment, tp)
    /\ assignment' = seek(assignment, tp, offset)
    /\ last' = [last EXCEPT ![tp] = NoPos]
    /\ Silent
    /\ UNCHANGED <<needs_partition_assignment, default_reset, leader, records,
                   wait_full, wait_empty, engineVars, consumer>>

Pause(tp) ==
    /\ is_assigned(assignment, tp) /\ ~assignment[tp].paused
    /\ assignment' = [assignment EXCEPT ![tp].paused = TRUE]
    /\ Silent
    /\ UNCHANGED <<needs_partition_assignment, default_reset, leader, records,
                   wait_full, wait_empty, engineVars, apiVars>>

Resume(tp) ==
    /\ is_assigned(assignment, tp) /\ assignment[tp].paused
    /\ assignment' = [assignment EXCEPT ![tp].paused = FALSE]
    /\ Silent
    /\ UNCHANGED <<needs_partition_assignment, default_reset, leader, records,
                   wait_full, wait_empty, engineVars, apiVars>>

\* a metadata update names another leader (or none) for tp
ChangeLeader(tp, node) ==
    /\ leader[tp] # node
    /\ leader' = [leader EXCEPT ![tp] = node]
    /\ Silent
    /\ UNCHANGED <<subsVars, records, wait_full, wait_empty, engineVars, apiVars>>

-----------------------------------------------------------------------------
(* Fetcher._fetch_requests_routine *)

LoopGoes(n) ==
    /\ loop' = [loop EXCEPT !.pc = n.pc, !.requests = n.requests]
    /\ wait_full' = n.wf

\* the task's first step: the first round, up to its first suspension
LoopStart ==
    /\ loop.pc = "start" /\ ~loop.cancel
    /\ LoopGoes(next_round(fetch_waiters, wait_full))
    /\ Silent
    /\ UNCHANGED <<subsVars, leader, records, in_flight, tasks, fetch_waiters,
                   wait_empty, closer, apiVars>>

\* client.ready(node_id) returns for a planned request: lines 162-171, then the
\* next client.ready or, after the last request, lines 173-195
LoopReady(r, node_ready) ==
    /\ loop.pc = "ready" /\ ~loop.cancel
    /\ r \in loop.requests
    /\ node_ready => FreeSlots # {}
    /\ LET spawned == IF node_ready THEN {FirstFree} ELSE {}
           waiters == fetch_waiters \cup spawned
           rest == loop.requests \ {r}
           a == after_for(waiters, records, wait_full)
       IN /\ fetch_waiters' = waiters
          /\ tasks' = [t \in TaskIds |->
                          IF t \in spawned
                          THEN [state |-> "created", node |-> r.node, req |-> r.req,
                                result |-> FALSE, cancel |-> FALSE,
                                refresh |-> FALSE]
                          ELSE tasks[t]]
          /\ in_flight' = IF node_ready THEN in_flight \cup {r.node} ELSE in_flight
          /\ IF rest = {}
             THEN LoopGoes([pc |-> a.pc, requests |-> {}, wf |-> a.wf])
             ELSE LoopGoes([pc |-> "ready", requests |-> rest, wf |-> wait_full])
    /\ Silent
    /\ UNCHANGED <<subsVars, leader, records, wait_empty, closer, apiVars>>

\* asyncio.wait(self._fetch_waiters, timeout, FIRST_COMPLETED) returns: lines
\* 174-182, then the next round
LoopWaitDone ==
    /\ loop.pc = "wait" /\ ~loop.cancel
    /\ Started
    /\ LET done_set == {t \in fetch_waiters : tasks[t].state \in Finished}
           pending == fetch_waiters \ done_set
           raised == \E t \in done_set : tasks[t].state # "done"
           has_new_data == \E t \in done_set : tasks[t].result
       IN /\ fetch_waiters' = pending
          /\ tasks' = [t \in TaskIds |-> IF t \in done_set THEN FreeTask ELSE tasks[t]]
          /\ IF raised
             THEN \* fut.result() raises: "Unexpected error in fetcher routine"
                  /\ loop' = [loop EXCEPT !.pc = "done", !.requests = {}]
                  /\ UNCHANGED <<wait_full, wait_empty>>
             ELSE /\ wait_empty' = IF has_new_data THEN notify(wait_empty)
                                   ELSE wait_empty
                  /\ LoopGoes(next_round(pending, wait_full))
    /\ Silent
    /\ UNCHANGED <<subsVars, leader, records, in_flight, closer, apiVars>>

\* the wait on _wait_full_future is over (set, or timed out)
LoopWaitFullDone ==
    /\ loop.pc = "wait_full" /\ ~loop.cancel
    /\ LoopGoes(next_round(fetch_waiters, wait_full))
    /\ Silent
    /\ UNCHANGED <<subsVars, leader, records, in_flight, tasks, fetch_waiters,
                   wait_empty, closer, apiVars>>

\* asyncio.sleep(fetcher_timeout) is over
LoopSleepDone ==
    /\ loop.pc = "sleep" /\ ~loop.cancel
    /\ LoopGoes(next_round(fetch_waiters, wait_full))
    /\ Silent
    /\ UNCHANGED <<subsVars, leader, records, in_flight, tasks, fetch_waiters,
                   wait_empty, closer, apiVars>>

\* CancelledError reaches the routine at its suspension point: lines 196-197
LoopCancelled ==
    /\ loop.cancel /\ loop.pc # "done"
    /\ Started
    /\ loop' = [loop EXCEPT !.pc = "done", !.requests = {}]
    /\ Silent
    /\ UNCHANGED <<subsVars, leader, records, in_flight, tasks, fetch_waiters,
                   wait_full, wait_empty, closer, apiVars>>

-----------------------------------------------------------------------------
(* Fetcher._proc_fetch_request, one task per request *)

\* "finally: self._in_flight.remove(node_id)": KeyError when the node is not there
RemoveFails(t) == tasks[t].node \notin in_flight

\* the task's first step: up to "yield from self._client.send(node_id, request)"
ChildStart(t) ==
    /\ tasks[t].state = "created" /\ ~tasks[t].cancel
    /\ tasks' = [tasks EXCEPT ![t].state = "sending"]
    /\ Silent
    /\ UNCHANGED <<subsVars, leader, records, in_flight, fetch_waiters, wait_full,
                   wait_empty, loop, closer, apiVars>>

ChildSendFailedKeeps(t) ==
    /\ tasks[t].state = "sending" /\ ~tasks[t].cancel
    /\ tasks' = [tasks EXCEPT ![t].state = "done", ![t].result = FALSE]
    /\ Silent
    /\ UNCHANGED <<subsVars, leader, records, in_flight, fetch_waiters, wait_full,
                   wait_empty, loop, closer, apiVars>>
\* client.send raises a KafkaError: lines 260-264
ChildSendFailed(t) ==
    /\ tasks[t].state = "sending" /\ ~tasks[t].cancel
    /\ in_flight' = in_flight \ {tasks[t].node}
    /\ tasks' = [tasks EXCEPT ![t].state = IF RemoveFails(t) THEN "failed" ELSE "done",
                              ![t].result = FALSE]
    /\ Silent
    /\ UNCHANGED <<subsVars, leader, records, fetch_waiters, wait_full, wait_empty,
                   loop, closer, apiVars>>

\* client.send returns response resp, its partitions in the order ord: lines
\* 263-344
ChildResponse(t, ord, resp) ==
    /\ tasks[t].state = "sending" /\ ~tasks[t].cancel
    /\ \A tp \in TPs : resp[tp].kind = "partial" => assignment[tp].position < MaxOffset
    /\ in_flight' = in_flight \ {tasks[t].node}
    /\ IF RemoveFails(t)
       THEN /\ tasks' = [tasks EXCEPT ![t].state = "failed"]
            /\ UNCHANGED <<assignment, records>>
       ELSE LET st == proc_response(ord, resp, tasks[t].req, default_reset,
                          [asg |-> assignment, recs |-> records,
                           wakeup |-> FALSE, crashed |-> FALSE,
                           refresh |-> FALSE])
            IN /\ assignment' = st.asg
               /\ records' = st.recs
               /\ tasks' = [tasks EXCEPT
                              ![t].state = IF st.crashed THEN "failed" ELSE "done",
                              ![t].result = ~st.crashed /\ st.wakeup,
                              ![t].refresh = st.refresh]
    /\ Silent
    /\ UNCHANGED <<needs_partition_assignment, default_reset, leader, fetch_waiters,
                   wait_full, wait_empty, loop, closer, apiVars>>

ChildCancelledKeeps(t) ==
    /\ tasks[t].cancel /\ tasks[t].state \in {"created", "sending"}
    /\ tasks' = [tasks EXCEPT ![t].state = "cancelled"]
    /\ Silent
    /\ UNCHANGED <<subsVars, leader, records, in_flight, fetch_waiters, wait_full,
                   wait_empty, loop, closer, apiVars>>
\* CancelledError reaches the task: before its first step nothing of it runs;
\* at client.send the finally clause runs
ChildCancelled(t) ==
    /\ tasks[t].cancel /\ tasks[t].state \in {"created", "sending"}
    /\ IF tasks[t].state = "created"
       THEN /\ tasks' = [tasks EXCEPT ![t].state = "cancelled"]
            /\ UNCHANGED in_flight
       ELSE /\ in_flight' = in_flight \ {tasks[t].node}
            /\ tasks' = [tasks EXCEPT
                           ![t].state = IF RemoveFails(t) THEN "failed" ELSE "cancelled"]
    /\ Silent
    /\ UNCHANGED <<subsVars, leader, records, fetch_waiters, wait_full, wait_empty,
                   loop, closer, apiVars>>

-----------------------------------------------------------------------------
(* Fetcher.close *)

\* close() is called: lines 143-145, the loop task is cancelled and awaited
CloseCall ==
    /\ closer.pc = "none"
    /\ loop' = [loop EXCEPT !.cancel = (loop.pc # "done")]
    /\ closer' = [closer EXCEPT
                     !.pc = "await_loop",
                     !.outstanding = {t \in TaskIds : tasks[t].state = "sending"}]
    /\ Silent
    /\ UNCHANGED <<subsVars, leader, records, in_flight, tasks, fetch_waiters,
                   wait_full, wait_empty, apiVars>>

\* the awaited task is over: the next "for x in self._fetch_waiters", x.cancel()
\* and "yield from x"; the exception of a failed x leaves close()
CloseAdvance ==
    /\ \/ closer.pc = "await_loop" /\ loop.pc = "done"
       \/ closer.pc = "await_child" /\ tasks[closer.cur].state \in Finished
    /\ LET rest == fetch_waiters \ closer.visited IN
       IF closer.pc = "await_child" /\ tasks[closer.cur].state = "failed"
       THEN /\ closer' = [closer EXCEPT !.pc = "raised"]
            /\ UNCHANGED tasks
       ELSE IF rest = {}
       THEN /\ closer' = [closer EXCEPT !.pc = "returned"]
            /\ UNCHANGED tasks
       ELSE \E x \in rest :
            /\ closer' = [closer EXCEPT !.pc = "await_child", !.cur = x,
                                         !.visited = closer.visited \cup {x}]
            /\ tasks' = [tasks EXCEPT
                           ![x].cancel = tasks[x].state \notin Finished]
    /\ Silent
    /\ UNCHANGED <<subsVars, leader, records, in_flight, fetch_waiters, wait_full,
                   wait_empty, loop, apiVars>>

-----------------------------------------------------------------------------
(* The application calling the consumer API *)

Returned(op, keys, got) ==
    [n |-> 1, op |-> op, kind |-> "return", keys |-> keys, got |-> got,
     err |-> "", errtp |-> "", off |-> NoPos]
Raised(op, tp, err, off) ==
    [n |-> 1, op |-> op, kind |-> "raise", keys |-> {}, got |-> NoGot,
     err |-> err, errtp |-> tp, off |-> off]
Delivered(got) ==
    [tp \in TPs |-> IF got[tp] = <<>> THEN last[tp] ELSE got[tp][Len(got[tp])]]

\* next_record(partitions) from its first line to its return, raise or wait
RunNextRecord(partitions) ==
    LET r == next_record(partitions, needs_partition_assignment, assignment,
                         records, wait_full)
    IN /\ records' = r.recs
       /\ assignment' = r.asg
       /\ wait_full' = r.wf
       /\ CASE r.kind = "return" ->
                 /\ out' = Returned("next_record", {r.tp},
                                    [NoGot EXCEPT ![r.tp] = <<r.msg>>])
                 /\ last' = [last EXCEPT ![r.tp] = r.msg]
                 /\ consumer' = [pc |-> "idle", partitions |-> {}]
                 /\ UNCHANGED wait_empty
            [] r.kind = "raise" ->
                 /\ out' = Raised("next_record", r.tp, r.err, r.off)
                 /\ consumer' = [pc |-> "idle", partitions |-> {}]
                 /\ UNCHANGED <<wait_empty, last>>
            [] OTHER ->
                 /\ wait_empty' = "pending"
                 /\ consumer' = [pc |-> "next_record", partitions |-> partitions]
                 /\ Silent
                 /\ UNCHANGED last
       /\ UNCHANGED <<needs_partition_assignment, default_reset, leader, engineVars,
                      updater>>

NextRecord(partitions) ==
    /\ consumer.pc = "idle"
    /\ RunNextRecord(partitions)

\* _wait_empty_future is set: "return (yield from self.next_record(partitions))"
NextRecordWake ==
    /\ consumer.pc = "next_record" /\ wait_empty = "done"
    /\ RunNextRecord(consumer.partitions)

\* fetched_records(partitions, timeout) from its first line to its return, raise
\* or wait
RunFetchedRecords(partitions, timeout) ==
    LET r == fetched_records(partitions, timeout, needs_partition_assignment,
                             assignment, records, wait_full)
    IN /\ records' = r.recs
       /\ assignment' = r.asg
       /\ wait_full' = r.wf
       /\ CASE r.kind = "return" ->
                 /\ out' = Returned("fetched_records", r.keys, r.got)
                 /\ last' = Delivered(r.got)
                 /\ consumer' = [pc |-> "idle", partitions |-> {}]
                 /\ UNCHANGED wait_empty
            [] r.kind = "raise" ->
                 /\ out' = Raised("fetched_records", r.tp, r.err, r.off)
                 /\ consumer' = [pc |-> "idle", partitions |-> {}]
                 /\ UNCHANGED <<wait_empty, last>>
            [] OTHER ->
                 /\ wait_empty' = "pending"
                 /\ consumer' = [pc |-> "fetched_records", partitions |-> partitions]
                 /\ Silent
                 /\ UNCHANGED last
       /\ UNCHANGED <<needs_partition_assignment, default_reset, leader, engineVars,
                      updater>>

FetchedRecords(partitions, timeout) ==
    /\ consumer.pc = "idle"
    /\ RunFetchedRecords(partitions, timeout)

\* the wait of line 552 ends with the future set: fetched_records(partitions, 0)
FetchedRecordsWake ==
    /\ consumer.pc = "fetched_records" /\ wait_empty = "done"
    /\ RunFetchedRecords(consumer.partitions, 0)

\* the wait of line 552 times out: "return drained", which is empty
FetchedRecordsTimeout ==
    /\ consumer.pc = "fetched_records" /\ wait_empty # "done"
    /\ out' = Returned("fetched_records", {}, NoGot)
    /\ consumer' = [pc |-> "idle", partitions |-> {}]
    /\ UNCHANGED <<subsVars, leader, records, wait_full, wait_empty, engineVars,
                   last, updater>>

-----------------------------------------------------------------------------
(* update_fetch_positions and the _reset_offset tasks it waits for *)

\* the coordinator learns the committed offset of a partition
Commit(tp, offset) ==
    /\ is_assigned(assignment, tp)
    /\ assignment' = [assignment EXCEPT ![tp].committed = offset]
    /\ Silent
    /\ UNCHANGED <<needs_partition_assignment, default_reset, leader, records,
                   wait_full, wait_empty, engineVars, apiVars>>

\* the values of kafka's OffsetResetStrategy, which _reset_offset passes on
\* as the timestamp of the OffsetRequest
OffsetResetStrategy(strategy) ==
    CASE strategy = "EARLIEST" -> 0 - 2
      [] strategy = "LATEST" -> 0 - 1
      [] strategy = "NONE" -> 0

\* the errors of an offset request, with the flags _offset reads
KafkaError(name, retriable, invalid_metadata) ==
    [name |-> name, retriable |-> retriable, invalid_metadata |-> invalid_metadata]
StaleMetadata == KafkaError("StaleMetadata", TRUE, TRUE)
LeaderNotAvailableError == KafkaError("LeaderNotAvailableError", TRUE, TRUE)
NodeNotReadyError == KafkaError("NodeNotReadyError", TRUE, FALSE)
NotLeaderForPartitionError == KafkaError("NotLeaderForPartitionError", TRUE, TRUE)
UnknownTopicOrPartitionError == KafkaError("UnknownTopicOrPartitionError", TRUE, TRUE)
RequestTimedOutError == KafkaError("RequestTimedOutError", TRUE, FALSE)
UnknownError == KafkaError("UnknownError", FALSE, FALSE)
\* leader_for_partition gave None or -1
LookupErrors == {StaleMetadata, LeaderNotAvailableError}
\* error codes of an OffsetResponse
ResponseErrors ==
    {NotLeaderForPartitionError, UnknownTopicOrPartitionError,
     RequestTimedOutError, UnknownError}

\* the body of the for loop of update_fetch_positions for one partition: the
\* assignment afterwards and whether a _reset_offset is appended to futures
update_partition(asg, tp, strategy) ==
    IF ~is_assigned(asg, tp) THEN [asg |-> asg, reset |-> FALSE]
    ELSE IF is_fetchable(asg, tp) THEN [asg |-> asg, reset |-> FALSE]
    ELSE IF is_offset_reset_needed(asg, tp) THEN [asg |-> asg, reset |-> TRUE]
    ELSE IF asg[tp].committed = NoPos
         THEN [asg |-> need_offset_reset(asg, tp, strategy), reset |-> TRUE]
         ELSE [asg |-> seek(asg, tp, asg[tp].committed), reset |-> FALSE]

RECURSIVE update_partitions(_, _, _)
\* the for loop over the list partitions; st.futures are the partitions with
\* a _reset_offset
update_partitions(partitions, strategy, st) ==
    IF partitions = <<>> THEN st
    ELSE LET u == update_partition(st.asg, Head(partitions), strategy)
         IN update_partitions(Tail(partitions), strategy,
                [asg |-> u.asg,
                 futures |-> IF u.reset THEN st.futures \cup {Head(partitions)}
                                       ELSE st.futures])

\* update_fetch_positions(partitions) up to its return or to asyncio.wait
UpdateFetchPositions(partitions) ==
    /\ updater.pc # "waiting"
    /\ LET st == update_partitions(partitions, default_reset,
                     [asg |-> assignment, futures |-> {}])
       IN /\ assignment' = st.asg
          /\ updater' =
                 [pc |-> IF st.futures = {} THEN "returned" ELSE "waiting",
                  err |-> "",
                  resets |-> [tp \in TPs |->
                                IF tp \in st.futures
                                THEN [NoReset EXCEPT !.pc = "created"]
                                ELSE NoReset]]
    /\ out' = NoOut
    /\ UNCHANGED <<needs_partition_assignment, default_reset, leader, records,
                   wait_full, wait_empty, engineVars, apiVars>>

offset_exceptGivesUp(r, error, ldr, unknown) ==
    [r EXCEPT !.pc = "failed", !.err = error.name]
RECURSIVE offset_except(_, _, _, _)
RECURSIVE offset_try(_, _, _)
\* _offset, the except clause: raise, or refresh the metadata first, or go
\* round the loop at once
offset_except(r, error, ldr, unknown) ==
    IF ~error.retriable THEN [r EXCEPT !.pc = "failed", !.err = error.name]
    ELSE IF error.invalid_metadata THEN [r EXCEPT !.pc = "metadata"]
    ELSE offset_try(r, ldr, unknown)
\* _offset, one round of the while loop up to the first wait of
\* _proc_offset_request: the leader is looked up and client.ready awaited
offset_try(r, ldr, unknown) ==
    IF ldr = NoLeader THEN offset_except(r, unknown, ldr, unknown)
    ELSE [r EXCEPT !.pc = "ready"]

ResetStep(tp, r) ==
    /\ updater.pc = "waiting"
    /\ updater' = [updater EXCEPT !.resets[tp] = r]
    /\ out' = NoOut

\* the first step of the task of _reset_offset(tp): the strategy is read and
\* _offset entered
ResetStart(tp, unknown) ==
    /\ updater.resets[tp].pc = "created"
    /\ IF ~is_assigned(assignment, tp)
       THEN ResetStep(tp, [updater.resets[tp] EXCEPT !.pc = "failed", !.err = "KeyError"])
       ELSE ResetStep(tp, offset_try(
                [updater.resets[tp] EXCEPT !.strategy = assignment[tp].reset_strategy],
                leader[tp], unknown))
    /\ UNCHANGED <<subsVars, leader, records, wait_full, wait_empty, engineVars,
                   apiVars>>

\* force_metadata_update() is over: the loop of _offset goes round
ResetMetadataDone(tp, unknown) ==
    /\ updater.resets[tp].pc = "metadata"
    /\ ResetStep(tp, offset_try(updater.resets[tp], leader[tp], unknown))
    /\ UNCHANGED <<subsVars, leader, records, wait_full, wait_empty, engineVars,
                   apiVars>>

\* client.ready(node_id) answers: NodeNotReadyError, or the request is sent
\* (a timestamp of None cannot be encoded)
ResetReady(tp, node_ready, unknown) ==
    /\ updater.resets[tp].pc = "ready"
    /\ LET r == updater.resets[tp] IN
       IF ~node_ready
       THEN ResetStep(tp, offset_except(r, NodeNotReadyError, leader[tp], unknown))
       ELSE IF r.strategy = NoStrategy
            THEN ResetStep(tp, [r EXCEPT !.pc = "failed", !.err = "struct.error"])
            ELSE ResetStep(tp, [r EXCEPT !.pc = "send",
                                         !.request = <<OffsetResetStrategy(r.strategy)>>])
    /\ UNCHANGED <<subsVars, leader, records, wait_full, wait_empty, engineVars,
                   apiVars>>

\* the OffsetResponse carries an error code
ResetError(tp, error, unknown) ==
    /\ updater.resets[tp].pc = "send"
    /\ ResetStep(tp, offset_except(updater.resets[tp], error, leader[tp], unknown))
    /\ UNCHANGED <<subsVars, leader, records, wait_full, wait_empty, engineVars,
                   apiVars>>

\* the OffsetResponse carries an offset: _reset_offset seeks if the partition
\* is still assigned
ResetOffset(tp, offset) ==
    /\ updater.resets[tp].pc = "send"
    /\ ResetStep(tp, [updater.resets[tp] EXCEPT !.pc = "done"])
    /\ assignment' = IF is_assigned(assignment, tp)
                     THEN seek(assignment, tp, offset)
                     ELSE assignment
    /\ UNCHANGED <<needs_partition_assignment, default_reset, leader, records,
                   wait_full, wait_empty, engineVars, apiVars>>

\* asyncio.wait(futures, ALL_COMPLETED) is over: "[x.result() for x in done]"
\* raises the error of a failed task, if any
UpdateDone ==
    /\ updater.pc = "waiting"
    /\ \A tp \in TPs : updater.resets[tp].pc \in {"none", "done", "failed"}
    /\ LET failed == {tp \in TPs : updater.resets[tp].pc = "failed"} IN
       IF failed = {}
       THEN updater' = [updater EXCEPT !.pc = "returned"]
       ELSE \E tp \in failed :
                updater' = [updater EXCEPT !.pc = "raised",
                                           !.err = updater.resets[tp].err]
    /\ out' = NoOut
    /\ UNCHANGED <<subsVars, leader, records, wait_full, wait_empty, engineVars,
                   apiVars>>

-----------------------------------------------------------------------------
(* Lines 266-344 alone: the answer to a request sent earlier is processed.  *)
(* The request is any the planner may have built since; the loop's wake-up  *)
(* of the consumer (line 182) follows as a step of its own.                 *)

Response(req, ord, resp) ==
    /\ \A tp \in TPs : resp[tp].kind = "partial" => assignment[tp].position < MaxOffset
    /\ LET st == proc_response(ord, resp, req, default_reset,
                     [asg |-> assignment, recs |-> records,
                      wakeup |-> FALSE, crashed |-> FALSE,
                           refresh |-> FALSE])
       IN /\ assignment' = st.asg
          /\ records' = st.recs
    /\ Silent
    /\ UNCHANGED <<needs_partition_assignment, default_reset, leader, wait_full,
                   wait_empty, engineVars, apiVars>>

\* line 182, self._notify(self._wait_empty_future)
LoopNotify ==
    /\ wait_empty = "pending"
    /\ wait_empty' = notify(wait_empty)
    /\ Silent
    /\ UNCHANGED <<subsVars, leader, records, wait_full, engineVars, apiVars>>

\* line 186, self._wait_full_future = asyncio.Future(): the loop found nothing
\* to fetch and no task to wait for
LoopArmsFull ==
    /\ wait_full # "pending"
    /\ wait_full' = "pending"
    /\ Silent
    /\ UNCHANGED <<subsVars, leader, records, wait_empty, engineVars, apiVars>>

\* the requests for partitions among U
Requests(U) ==
    {req \in [TPs -> {NoPos} \cup (0 .. MaxOffset)] :
        ReqTPs(req) # {} /\ ReqTPs(req) \subseteq U}

-----------------------------------------------------------------------------
(* Specifications *)

\* the subscription changing under the fetcher, for the partitions U
Subscription(U) ==
    \/ Rebalance
    \/ \E S \in SUBSET U : Assign(S)
    \/ \E tp \in U, offset \in 0 .. MaxOffset : Seek(tp, offset)
    \/ \E tp \in U : Pause(tp)
    \/ \E tp \in U : Resume(tp)

Metadata(U) ==
    \E tp \in U, node \in Nodes \cup {NoLeader} : ChangeLeader(tp, node)

FetchLoop ==
    \/ LoopStart
    \/ \E r \in loop.requests, node_ready \in BOOLEAN : LoopReady(r, node_ready)
    \/ LoopWaitDone
    \/ LoopWaitFullDone
    \/ LoopSleepDone

FetchTask(t, Results) ==
    \/ ChildStart(t)
    \/ ChildSendFailed(t)
    \/ \E ord \in Orders(ReqTPs(tasks[t].req)) :
           \E resp \in Responses(tasks[t].req, Results) :
               ChildResponse(t, ord, resp)

Close ==
    \/ CloseCall
    \/ CloseAdvance
    \/ LoopCancelled
    \/ \E t \in TaskIds : ChildCancelled(t)

Application(filters) ==
    \/ \E partitions \in filters : NextRecord(partitions)
    \/ NextRecordWake
    \/ \E partitions \in filters, timeout \in {0, 1} : FetchedRecords(partitions, timeout)
    \/ FetchedRecordsWake
    \/ FetchedRecordsTimeout

\* The partition the specifications below act on.
One == {"t0"}

\* SpecApi: the consumer API and the buffers of one partition, against every
\* answer to every request and every change of the subscription; the loop is
\* reduced to what it does to the two futures.
NextApi ==
    \/ Subscription(One)
    \/ \E req \in Requests(One) :
           \E ord \in Orders(ReqTPs(req)) :
               \E resp \in Responses(req, AnyResults) :
                   Response(req, ord, resp)
    \/ LoopNotify
    \/ LoopArmsFull
    \/ Application({{}})

SpecApi == Init /\ [][NextApi]_vars

\* Spec: the fetch loop and its child tasks as asyncio schedules them, with a
\* consumer calling next_record, under rebalances, seeks to the start of the
\* log and leader changes.
InitEngine == Init /\ default_reset = "LATEST"

Next ==
    \/ Rebalance
    \/ \E S \in SUBSET One : Assign(S)
    \/ \E tp \in One : Seek(tp, 0)
    \/ Metadata(One)
    \/ FetchLoop
    \/ \E t \in TaskIds : FetchTask(t, EngineResults)
    \/ NextRecord({})
    \/ NextRecordWake

Spec == InitEngine /\ [][Next]_vars

\* SpecClose: the loop and its child tasks with close() called at any moment.
NextClose ==
    \/ \E S \in SUBSET One : Assign(S)
    \/ \E tp \in One : Seek(tp, 0)
    \/ Metadata(One)
    \/ FetchLoop
    \/ \E t \in TaskIds : FetchTask(t, EngineResults)
    \/ Close

SpecClose == InitEngine /\ [][NextClose]_vars

\* SpecLive: one partition assigned, positioned and led once and for all, a
\* consumer calling next_record; the event loop runs every task that is ready
\* (weak fairness of the loop, of each child and of the woken consumer).
NextLive ==
    \/ ~is_assigned(assignment, "t0") /\ Assign(One)
    \/ assignment["t0"].position = NoPos /\ Seek("t0", 0)
    \/ leader["t0"] = NoLeader /\ ChangeLeader("t0", 1)
    \/ FetchLoop
    \/ \E t \in TaskIds : FetchTask(t, LiveResults)
    \/ NextRecord({})
    \/ NextRecordWake

SpecLive ==
    /\ InitEngine
    /\ [][NextLive]_vars
    /\ WF_vars(FetchLoop)
    /\ \A t \in TaskIds : WF_vars(FetchTask(t, LiveResults))
    /\ WF_vars(NextRecordWake)

\* SpecErr: as SpecLive without its fairness, under either reset policy, with
\* the answers that make the engine move a position itself: a record too large
\* for the fetch size and an offset out of range; a partition that lost its
\* position is sought again, to any offset.
ErrResults ==
    [o \in 0 .. MaxOffset |->
        {r \in PartitionResults(o) :
            \/ r.kind \in {"empty", "partial", "out_of_range"}
            \/ r.kind = "msgs" /\ r.msgs = <<o>>}]

NextErr ==
    \/ ~is_assigned(assignment, "t0") /\ Assign(One)
    \/ \E offset \in 0 .. MaxOffset :
           assignment["t0"].position = NoPos /\ Seek("t0", offset)
    \/ leader["t0"] = NoLeader /\ ChangeLeader("t0", 1)
    \/ FetchLoop
    \/ \E t \in TaskIds : FetchTask(t, ErrResults)
    \/ NextRecord({})
    \/ NextRecordWake

SpecErr == Init /\ [][NextErr]_vars

\* SpecRetry: as SpecLive, the answers being records or the failure of the
\* send, with close() called at any moment.
RetryResults ==
    [o \in 0 .. MaxOffset |->
        {r \in PartitionResults(o) : r.kind = "msgs" /\ r.msgs = <<o>>}]

NextRetry ==
    \/ ~is_assigned(assignment, "t0") /\ Assign(One)
    \/ assignment["t0"].position = NoPos /\ Seek("t0", 0)
    \/ leader["t0"] = NoLeader /\ ChangeLeader("t0", 1)
    \/ FetchLoop
    \/ \E t \in TaskIds : FetchTask(t, RetryResults)
    \/ NextRecord({})
    \/ NextRecordWake
    \/ Close

SpecRetry ==
    /\ InitEngine
    /\ [][NextRetry]_vars
    /\ WF_vars(FetchLoop)
    /\ \A t \in TaskIds : WF_vars(FetchTask(t, RetryResults))
    /\ WF_vars(NextRecordWake)

\* SpecLeader: one partition whose leadership moves once, from node 1 to
\* node 2, the old leader answering NotLeaderForPartition (or
\* UnknownTopicOrPartition) at any time; the nodes get ready when asked again
\* and again (strong fairness of a ready answer of client.ready) and the
\* consumer keeps calling next_record.
LeaderResults ==
    [o \in 0 .. MaxOffset |->
        {r \in PartitionResults(o) :
            \/ r.kind \in {"empty", "not_leader"}
            \/ r.kind = "msgs" /\ r.msgs = <<o>>}]

NodeIsReady == \E r \in loop.requests : LoopReady(r, TRUE)

NextLeader ==
    \/ ~is_assigned(assignment, "t0") /\ Assign(One)
    \/ \E offset \in 0 .. MaxOffset :
           assignment["t0"].position = NoPos /\ Seek("t0", offset)
    \/ leader["t0"] = NoLeader /\ ChangeLeader("t0", 1)
    \/ leader["t0"] = 1 /\ ChangeLeader("t0", 2)
    \/ FetchLoop
    \/ \E t \in TaskIds : FetchTask(t, LeaderResults)
    \/ NextRecord({})
    \/ NextRecordWake

SpecLeader ==
    /\ InitEngine
    /\ [][NextLeader]_vars
    /\ WF_vars(FetchLoop)
    /\ SF_vars(NodeIsReady)
    /\ \A t \in TaskIds : WF_vars(FetchTask(t, LeaderResults))
    /\ WF_vars(NextRecord({}))
    /\ WF_vars(NextRecordWake)

\* SpecUpdate: update_fetch_positions called again and again for one
\* partition, under every default strategy, while the coordinator assigns,
\* commits, seeks, pauses and resumes and the leader comes and goes.
ResetTask(tp) ==
    \/ \E unknown \in LookupErrors : ResetStart(tp, unknown)
    \/ \E unknown \in LookupErrors : ResetMetadataDone(tp, unknown)
    \/ \E node_ready \in BOOLEAN, unknown \in LookupErrors :
           ResetReady(tp, node_ready, unknown)
    \/ \E error \in ResponseErrors, unknown \in LookupErrors :
           ResetError(tp, error, unknown)
    \/ \E offset \in 0 .. MaxOffset : ResetOffset(tp, offset)

InitUpdate == InitWith(Strategies)

NextUpdate ==
    \/ \E S \in SUBSET One : Assign(S)
    \/ \E tp \in One, offset \in 0 .. MaxOffset : Seek(tp, offset)
    \/ \E tp \in One : Pause(tp)
    \/ \E tp \in One : Resume(tp)
    \/ \E tp \in One, offset \in 0 .. MaxOffset : Commit(tp, offset)
    \/ Metadata(One)
    \/ UpdateFetchPositions(<<"t0">>)
    \/ \E tp \in One : ResetTask(tp)
    \/ UpdateDone

SpecUpdate == InitUpdate /\ [][NextUpdate]_vars

\* SpecDrain: the consumer API alone, from every content of _records over two
\* partitions (buffers of ascending offsets, error sentinels, in either order)
\* under every state of the subscription.
DrainMessages ==
    {s \in {<<>>} \cup {<<a>> : a \in 0 .. MaxOffset - 1}
              \cup {<<a, b>> : a, b \in 0 .. MaxOffset - 1} :
        \A i, j \in DOMAIN s : i < j => s[i] < s[j]}

DrainEntries(tp) ==
    {BufEntry(tp, msgs) : msgs \in DrainMessages}
    \cup {ErrEntry(tp, "TopicAuthorizationFailed", NoPos)}

DrainRecords ==
    {<<>>}
    \cup {<<e>> : e \in DrainEntries("t0") \cup DrainEntries("t1")}
    \cup {<<e, f>> : e \in DrainEntries("t0"), f \in DrainEntries("t1")}
    \cup {<<f, e>> : e \in DrainEntries("t0"), f \in DrainEntries("t1")}

DrainStates ==
    {FreshState}
    \cup {[FreshState EXCEPT !.assigned = TRUE, !.paused = paused, !.position = p] :
             paused \in BOOLEAN, p \in 0 .. MaxOffset}

InitDrain ==
    /\ needs_partition_assignment \in BOOLEAN
    /\ assignment \in [TPs -> DrainStates]
    /\ default_reset = "LATEST"
    /\ leader = [tp \in TPs |-> NoLeader]
    /\ records \in DrainRecords
    /\ in_flight = {}
    /\ tasks = [t \in TaskIds |-> FreeTask]
    /\ fetch_waiters = {}
    /\ wait_full = "pending"
    /\ wait_empty = "none"
    /\ loop = [pc |-> "wait_full", requests |-> {}, cancel |-> FALSE]
    /\ consumer = [pc |-> "idle", partitions |-> {}]
    /\ closer = [pc |-> "none", cur |-> 0, visited |-> {}, outstanding |-> {}]
    /\ updater = NoUpdate
    /\ out = NoOut
    /\ last = [tp \in TPs |-> NoPos]

Filters == {{}, {"t0"}}

NextDrain ==
    \/ Application(Filters)
    \/ LoopNotify

SpecDrain == InitDrain /\ [][NextDrain]_vars

-----------------------------------------------------------------------------
(* Properties *)

\* a child task that holds a request it has not been answered yet
Live == {"created", "sending"}
LiveTasks == {t \in TaskIds : tasks[t].state \in Live}

\* C1: between two seeks or assignments of a partition, every record a call
\* of next_record or fetched_records delivers for it has the offset the
\* position had right before that record was delivered, and an offset above
\* every offset delivered before: strictly increasing, nothing twice.
DeliveryInOrder ==
    [][\A tp \in TPs :
          out'.got[tp] # <<>> =>
              /\ assignment[tp].position # NoPos
              /\ \A i \in DOMAIN out'.got[tp] :
                     out'.got[tp][i] = assignment[tp].position + i - 1
              /\ out'.got[tp][1] > last[tp]]_vars

\* fetched_records has just delivered offsets 0 and 1 of t0, in that order
DeliveredTwoInOrder ==
    /\ out.op = "fetched_records" /\ out.kind = "return"
    /\ out.got["t0"] = <<0, 1>>

\* C2: a call of the consumer API moves a partition's position by exactly the
\* number of records it returns for it, to the last returned offset + 1; a
\* call that returns no record of the partition (an empty result, a raise, a
\* wait) leaves its position where it was.
PositionFollowsDelivery ==
    [][Application({{}}) =>
          \A tp \in TPs :
              LET got == out'.got[tp] IN
              IF got = <<>>
              THEN assignment'[tp].position = assignment[tp].position
              ELSE /\ assignment'[tp].position = got[Len(got)] + 1
                   /\ assignment'[tp].position =
                          assignment[tp].position + Len(got)]_vars

\* next_record has just returned offset 1 of t0 and the position is 2
ReturnedOneAdvanced ==
    /\ out.op = "next_record" /\ out.kind = "return"
    /\ out.got["t0"] = <<1>>
    /\ assignment["t0"].position = 2

\* C3: no partition with an entry in _records is asked for by a request that
\* a child task holds (in flight) or that the loop has planned and is about to
\* send (it waits in client.ready).
NoDoubleFetch ==
    \A tp \in RecTPs(records) :
        /\ \A t \in LiveTasks : tasks[t].req[tp] = NoPos
        /\ loop.pc = "ready" => \A r \in loop.requests : r.req[tp] = NoPos

\* C4: at most one child task per node holds a request, and its node is in
\* _in_flight, so the planner skips the node until that task is over.
OneFetchPerNode ==
    \A n \in Nodes :
        LET holders == {t \in LiveTasks : tasks[t].node = n}
        IN /\ Cardinality(holders) <= 1
           /\ holders # {} => n \in in_flight

\* two requests are outstanding at once, to the two nodes
TwoNodesInFlight ==
    \E t, u \in LiveTasks :
        tasks[t].state = "sending" /\ tasks[u].state = "sending" /\
        tasks[t].node # tasks[u].node

\* C5: whenever a child task is spawned for a request, and whenever it sends
\* it, needs_partition_assignment is false and some partition is fetchable.
NoFetchWhenNotFetchable ==
    [][\A t \in TaskIds :
          tasks'[t].state # tasks[t].state /\ tasks'[t].state \in Live =>
              /\ ~needs_partition_assignment
              /\ fetchable_partitions(assignment) # {}]_vars

\* C6: the step in which next_record or fetched_records raises an error is
\* the step that takes that error's sentinel out of _records and leaves
\* _wait_full_future signalled: no later call finds the sentinel.
SentinelRaisedOnce ==
    [][out'.kind = "raise" =>
          /\ out'.errtp \in RecTPs(records)
          /\ Entry(records, out'.errtp).kind = "err"
          /\ Entry(records, out'.errtp).err = out'.err
          /\ out'.errtp \notin RecTPs(records')
          /\ wait_full' # "pending"]_vars

\* an error has just been raised, its sentinel is gone and the loop's
\* _wait_full_future is set
RaisedAndSignalled ==
    /\ out.kind = "raise" /\ out.err = "TopicAuthorizationFailed"
    /\ records = <<>>
    /\ wait_full = "done"

\* C7: a consumer blocked in next_record while _records holds an entry (a
\* buffer or an error sentinel, installed since it blocked) eventually
\* returns a record or raises.
BlockedConsumerIsServed ==
    (consumer.pc = "next_record" /\ records # <<>>)
        ~> (out.op = "next_record" /\ out.kind \in {"return", "raise"})

\* C8: once close() has returned, the loop task is done, no child task is
\* left unfinished and _fetch_waiters is empty.
CloseLeavesNothing ==
    closer.pc = "returned" =>
        /\ loop.pc = "done"
        /\ LiveTasks = {}
        /\ fetch_waiters = {}

\* C9: a child task that awaited its answer when close() was called changes
\* neither _records nor a position or high-watermark when it goes on; once
\* close() has returned, no step of the loop, of a child task or of close
\* changes _records, _in_flight or the assignment.
CloseStopsEngine ==
    [][/\ \A t \in closer.outstanding :
              tasks'[t] # tasks[t] =>
                  records' = records /\ assignment' = assignment
       /\ (closer.pc = "returned" /\
           (FetchLoop \/ Close \/ \E t \in TaskIds : FetchTask(t, EngineResults))) =>
              records' = records /\ in_flight' = in_flight /\
              assignment' = assignment]_vars

\* C10: in a step of the engine or of the consumer API, a partition that is
\* unassigned, paused, without position or under rebalance gets no new or
\* changed entry in _records (its entry can only go), keeps its
\* high-watermark and its position, and none of its records is delivered.
UnfetchableIsDropped ==
    [][\/ Subscription(One)
       \/ Metadata(One)
       \/ \A tp \in TPs :
              (needs_partition_assignment \/ ~is_fetchable(assignment, tp)) =>
                  /\ tp \in RecTPs(records') =>
                         tp \in RecTPs(records) /\
                         Entry(records', tp) = Entry(records, tp)
                  /\ assignment'[tp].highwater = assignment[tp].highwater
                  /\ assignment'[tp].position = assignment[tp].position
                  /\ out'.got[tp] = <<>>]_vars

CountOf(seq, x) == Cardinality({i \in DOMAIN seq : seq[i] = x})
SameBag(s, t) == \A x \in 0 .. MaxOffset : CountOf(s, x) = CountOf(t, x)
NoErrors(recs) == \A i \in DOMAIN recs : recs[i].kind = "buf"

\* C13: from any content of _records without error sentinel, under any state
\* of the subscription and any filter, calling next_record until it would wait
\* and calling fetched_records(timeout=0) until it returns nothing deliver,
\* for each partition, the same multiset of records and leave the same
\* positions.
DrainsAgree ==
    NoErrors(records) =>
        \A partitions \in Filters :
            LET a == drain_next(partitions, needs_partition_assignment,
                                assignment, records, NoGot)
                b == drain_fetched(partitions, needs_partition_assignment,
                                   assignment, records, NoGot)
            IN \A tp \in TPs :
                   /\ SameBag(a.got[tp], b.got[tp])
                   /\ a.asg[tp].position = b.asg[tp].position

\* next_record has returned the record at offset 0 of t0; what is left to
\* drain is one record of each partition
DrainLeftInBoth ==
    /\ out.op = "next_record" /\ out.got["t0"] = <<0>>
    /\ NoErrors(records)
    /\ drain_next({}, needs_partition_assignment, assignment, records, NoGot).got
           = [t0 |-> <<1>>, t1 |-> <<1>>]

\* the keys of _records a call with this filter looks at, in order
Matching(recs, partitions) ==
    SelectSeq(Keys(recs), LAMBDA tp : partitions = {} \/ tp \in partitions)
\* the first of them that holds an error sentinel, 0 if none does
FirstError(recs, m) ==
    IF \E i \in DOMAIN m : Entry(recs, m[i]).kind = "err"
    THEN CHOOSE i \in DOMAIN m :
             /\ Entry(recs, m[i]).kind = "err"
             /\ \A k \in 1 .. i - 1 : Entry(recs, m[k]).kind = "buf"
    ELSE 0
\* what a call of fetched_records(partitions) that meets a sentinel does
SentinelMet(partitions) ==
    LET m == Matching(records, partitions)
        j == FirstError(records, m)
        before == {m[i] : i \in 1 .. j - 1}
    IN j > 0 =>
           IF before # {}
           THEN /\ out'.kind = "return" /\ out'.keys = before
                /\ RecTPs(records') = RecTPs(records) \ before
                /\ Entry(records', m[j]) = Entry(records, m[j])
           ELSE /\ out'.kind = "raise" /\ out'.errtp = m[j]
                /\ out'.err = Entry(records, m[j]).err
                /\ RecTPs(records') = RecTPs(records) \ {m[j]}
                /\ assignment' = assignment

\* C16: fetched_records that reaches an error sentinel after it drained some
\* partition returns what it drained and leaves the sentinel in _records as
\* it was; if it drained nothing it removes the sentinel and raises it (so
\* does the call after one that held it back); with timeout=0 the call
\* returns or raises at once.
ErrorHeldWhenDrained ==
    [][/\ \A partitions \in Filters, timeout \in {0, 1} :
              FetchedRecords(partitions, timeout) =>
                  /\ SentinelMet(partitions)
                  /\ timeout = 0 =>
                         consumer'.pc = "idle" /\ out'.op = "fetched_records"
       /\ FetchedRecordsWake =>
              /\ SentinelMet(consumer.partitions)
              /\ consumer'.pc = "idle" /\ out'.op = "fetched_records"]_vars

\* fetched_records has returned what it drained of t1 (nothing was deliverable)
\* and the sentinel of t0 it met is still in _records
ErrorHeld ==
    /\ out.op = "fetched_records" /\ out.kind = "return"
    /\ out.keys = {"t1"}
    /\ records = <<ErrEntry("t0", "TopicAuthorizationFailed", NoPos)>>

\* the buffers of _records whose partition passes _check_assignment
FetchableBuffers ==
    {i \in DOMAIN records :
        /\ records[i].kind = "buf"
        /\ check_assignment(needs_partition_assignment, assignment, records[i].tp)}

\* C17 as stated: getone() on a fetchable partition removes the head records
\* below the position and the record at the position, which it returns; a
\* record above the position stays buffered.
GetoneKeepsGreater ==
    \A i \in FetchableBuffers :
        getone(needs_partition_assignment, assignment, records[i].tp, records[i].msgs)
            = getone_scanKeepsGreater(records[i].msgs,
                                      assignment[records[i].tp].position)

\* C17 as the code has it: getone() on a fetchable partition removes every
\* head record whose offset differs from the position, below or above it, up
\* to and with the first record at the position, which it returns with the
\* position moved by 1; with no such record it empties the buffer, returns
\* nothing and leaves the position.
GetoneDropsUnequal ==
    \A i \in FetchableBuffers :
        LET tp == records[i].tp
            msgs == records[i].msgs
            pos == assignment[tp].position
            at == {k \in DOMAIN msgs : msgs[k] = pos}
            r == getone(needs_partition_assignment, assignment, tp, msgs)
        IN IF at = {}
           THEN r = [msg |-> NoPos, rest |-> <<>>, pos |-> pos]
           ELSE LET k == CHOOSE k \in at : \A j \in at : k <= j
                IN r = [msg |-> pos, rest |-> SubSeq(msgs, k + 1, Len(msgs)),
                        pos |-> pos + 1]

\* next_record has returned offset 0 of t0 and has left the buffer of t1,
\* fetchable at position 0, which holds the record at offset 1 only
GreaterRecordBuffered ==
    /\ out.op = "next_record" /\ out.got["t0"] = <<0>>
    /\ ~needs_partition_assignment
    /\ is_fetchable(assignment, "t1") /\ assignment["t1"].position = 0
    /\ "t1" \in RecTPs(records)
    /\ Entry(records, "t1") = BufEntry("t1", <<1>>)

NoPolicyRaises ==
    [][\A tp \in One :
          /\ (/\ UpdateFetchPositions(<<"t0">>)
              /\ default_reset = "NONE"
              /\ is_assigned(assignment, tp) /\ ~is_fetchable(assignment, tp)
              /\ assignment[tp].committed = NoPos) =>
                 /\ updater'.pc = "raised"
                 /\ updater'.err = "NoOffsetForPartitionError"
                 /\ updater'.resets[tp].pc = "none"
                 /\ assignment'[tp].position = assignment[tp].position
          /\ updater'.resets[tp].strategy = "NONE" =>
                 updater'.resets[tp].pc \notin {"send", "done"}]_vars

\* C18: the OffsetRequest of _reset_offset has the timestamp -2 if the
\* partition's reset_strategy is EARLIEST and -1 for any other strategy,
\* LATEST or NONE.
TimestampEarliestOrLatest ==
    \A tp \in TPs :
        LET r == updater.resets[tp] IN
        r.request # <<>> =>
            r.request = <<IF r.strategy = "EARLIEST" THEN 0 - 2 ELSE 0 - 1>>

\* C19: in the loop of _offset a retriable error, from the leader lookup,
\* from client.ready or from the OffsetResponse, keeps the task going: it
\* awaits a metadata update first if the error is flagged invalid_metadata,
\* and asks again (same timestamp) otherwise; a non-retriable error fails the
\* task with no seek and update_fetch_positions raises it; an offset is
\* sought to only if the partition is assigned when it arrives.
OffsetRetryLoop ==
    [][\A tp \in One :
          LET r == updater.resets[tp]
              q == updater'.resets[tp]
              again == IF leader[tp] = NoLeader THEN "metadata" ELSE "ready"
          IN /\ \A error \in ResponseErrors, unknown \in LookupErrors :
                    ResetError(tp, error, unknown) =>
                        /\ assignment' = assignment
                        /\ IF ~error.retriable
                           THEN q.pc = "failed" /\ q.err = error.name
                           ELSE q.pc = IF error.invalid_metadata THEN "metadata"
                                                                  ELSE again
             /\ \A unknown \in LookupErrors :
                    (ResetReady(tp, FALSE, unknown) \/ ResetStart(tp, unknown)
                         \/ ResetMetadataDone(tp, unknown)) =>
                        /\ assignment' = assignment
                        /\ is_assigned(assignment, tp) => q.pc = again
             /\ (q.pc = "send" /\ r.pc # "send") =>
                    q.request = <<OffsetResetStrategy(q.strategy)>> /\
                    (r.request # <<>> => q.request = r.request)
             /\ (UpdateDone /\ r.pc = "failed") =>
                    /\ updater'.pc = "raised" /\ updater'.err = r.err
                    /\ assignment' = assignment
             /\ \A offset \in 0 .. MaxOffset :
                    ResetOffset(tp, offset) =>
                        /\ q.pc = "done"
                        /\ IF is_assigned(assignment, tp)
                           THEN assignment'[tp].position = offset
                           ELSE assignment' = assignment]_vars

\* an OffsetRequest for the latest offset was answered by a retriable error
\* flagged invalid_metadata: the task awaits the metadata update before it
\* asks again
RetryAfterRefresh ==
    /\ updater.pc = "waiting"
    /\ updater.resets["t0"].pc = "metadata"
    /\ updater.resets["t0"].request = <<0 - 1>>

\* a request for tp is planned by the loop or held by a child task
Requested(tp) ==
    \/ loop.pc = "ready" /\ \E r \in loop.requests : r.req[tp] # NoPos
    \/ \E t \in LiveTasks : tasks[t].req[tp] # NoPos
\* a child task is over without new data and without an entry for tp, which
\* it asked for: its send failed
SendFailedFor(tp) ==
    /\ tp \notin RecTPs(records)
    /\ \E t \in TaskIds :
           tasks[t].state = "done" /\ ~tasks[t].result /\ tasks[t].req[tp] # NoPos

\* C20: a child task that ends, by an answer, by a failed send or by a
\* cancellation, leaves _in_flight without its node; a failed send makes the
\* task return False with _records and the assignment (positions,
\* high-watermarks) unchanged; and the partition of a failed request is
\* planned again by the loop, unless close() is called.
ChildExitReleasesNode ==
    /\ [][\A t \in TaskIds :
             /\ (tasks[t].state \in Live /\ tasks'[t].state \notin Live) =>
                    tasks[t].node \notin in_flight'
             /\ ChildSendFailed(t) =>
                    /\ tasks'[t].state = "done" /\ ~tasks'[t].result
                    /\ records' = records /\ assignment' = assignment]_vars
    /\ \A tp \in One :
           SendFailedFor(tp) ~> (Requested(tp) \/ closer.pc # "none")

\* the send of the request for t0 has failed: the task is over with False,
\* node 1 is out of _in_flight, nothing is buffered and the position is
\* where it was
SendFailedNodeFree ==
    /\ SendFailedFor("t0")
    /\ in_flight = {}
    /\ assignment["t0"].position = 1
    /\ closer.pc = "none"

\* a child task is over whose answer for tp made it ask for new metadata
RefreshAsked(tp) ==
    \E t \in TaskIds :
        tasks[t].state = "done" /\ tasks[t].refresh /\ tasks[t].req[tp] # NoPos
\* a request for tp at its position is sent to the node
FetchedFrom(tp, node) ==
    \E t \in TaskIds :
        /\ tasks[t].state = "sending" /\ tasks[t].node = node
        /\ tasks[t].req[tp] = assignment[tp].position

LoopStopsOnlyOnClose ==
    loop.pc = "done" => closer.pc # "none"

\* C23: between any two steps a node is in _in_flight if and only if
\* _fetch_waiters holds an unfinished child task for that node; no child
\* task is cancelled before its first step, the one case in which the
\* finally clause that removes the node would not run.
InFlightMatchesWaiters ==
    /\ \A n \in Nodes :
           n \in in_flight <=>
               \E t \in fetch_waiters : tasks[t].state \in Live /\ tasks[t].node = n
    /\ \A t \in TaskIds : tasks[t].cancel => tasks[t].state # "created"

\* close() has cancelled a child task that awaited its answer: the task is
\* over, gone from _in_flight, while the task for the other node still is in
\* _fetch_waiters and its node in _in_flight
CancelledNodeReleased ==
    /\ closer.pc = "await_child"
    /\ tasks[closer.cur].state = "cancelled"
    /\ tasks[closer.cur].node \notin in_flight
    /\ \E t \in fetch_waiters :
           tasks[t].state = "sending" /\ tasks[t].node \in in_flight

====
